---- MODULE Spec2Model ----
(***************************************************************************)
(* Model of the diffomatic automatic-differentiation crate:                *)
(*   src/src/reverse.rs  - Tape / Node / Var / backprop / Grad             *)
(*   src/src/forward.rs  - DualScalar, derivative, gradient, jacobian      *)
(*   src/src/lib.rs      - the crate root's own gradient / jacobian        *)
(*   src/src/bin.rs      - the demonstration program                       *)
(*                                                                         *)
(* f64 is modelled as the exact rationals extended with the IEEE-754       *)
(* values +0, -0, +Infinity, -Infinity and NaN.  A value is a pair <<n,d>>:*)
(*   d > 0, n # 0 : the rational n/d in lowest terms                       *)
(*   <<0, 1>>     : +0.0        <<0, -1>> : -0.0                           *)
(*   <<1, 0>>     : +Infinity   <<-1, 0>> : -Infinity                      *)
(*   <<0, 0>>     : NaN                                                    *)
(* Rounding, overflow and underflow of finite values are not modelled: the *)
(* values that occur are small rationals, which f64 arithmetic on the      *)
(* model's inputs does not round except in non-dyadic quotients.           *)
(***************************************************************************)
EXTENDS Integers, Sequences, FiniteSets, TLC

\* ------------------------------------------------------------------ f64
Nan == <<0, 0>>
PInf == <<1, 0>>
NInf == <<-1, 0>>
Zero == <<0, 1>>
NZero == <<0, -1>>
One == <<1, 1>>
MinusOne == <<-1, 1>>

IsNan(a) == a[1] = 0 /\ a[2] = 0
IsInf(a) == a[1] # 0 /\ a[2] = 0
IsZero(a) == a[1] = 0 /\ a[2] # 0
IsFinite(a) == a[2] # 0
SignNeg(a) == IF a[1] = 0 THEN a[2] < 0 ELSE a[1] < 0

Abs(n) == IF n < 0 THEN -n ELSE n

RECURSIVE Gcd(_, _)
Gcd(a, b) == IF b = 0 THEN a ELSE Gcd(b, a % b)

\* the rational n/d (n # 0, d > 0) in lowest terms
Norm(n, d) ==
    LET g == Gcd(Abs(n), d)
    IN  IF n < 0 THEN <<-(Abs(n) \div g), d \div g>> ELSE <<n \div g, d \div g>>

\* the f64 of an integer literal
F(n) == IF n = 0 THEN Zero ELSE <<n, 1>>

FNeg(a) ==
    IF IsNan(a) THEN Nan
    ELSE IF a[1] = 0 THEN <<0, -a[2]>>
    ELSE <<-a[1], a[2]>>

FMul(a, b) ==
    IF IsNan(a) \/ IsNan(b) THEN Nan
    ELSE IF (IsInf(a) /\ IsZero(b)) \/ (IsZero(a) /\ IsInf(b)) THEN Nan
    ELSE LET neg == SignNeg(a) # SignNeg(b)
         IN  IF IsInf(a) \/ IsInf(b) THEN (IF neg THEN NInf ELSE PInf)
             ELSE IF IsZero(a) \/ IsZero(b) THEN (IF neg THEN NZero ELSE Zero)
             ELSE Norm(a[1] * b[1], a[2] * b[2])

FDiv(a, b) ==
    IF IsNan(a) \/ IsNan(b) THEN Nan
    ELSE IF (IsInf(a) /\ IsInf(b)) \/ (IsZero(a) /\ IsZero(b)) THEN Nan
    ELSE LET neg == SignNeg(a) # SignNeg(b)
         IN  IF IsInf(a) \/ IsZero(b) THEN (IF neg THEN NInf ELSE PInf)
             ELSE IF IsInf(b) \/ IsZero(a) THEN (IF neg THEN NZero ELSE Zero)
             ELSE LET n == Abs(a[1]) * b[2]
                      d == a[2] * Abs(b[1])
                  IN  Norm(IF neg THEN -n ELSE n, d)

FAdd(a, b) ==
    IF IsNan(a) \/ IsNan(b) THEN Nan
    ELSE IF IsInf(a) THEN (IF IsInf(b) /\ b # a THEN Nan ELSE a)
    ELSE IF IsInf(b) THEN b
    ELSE IF IsZero(a) /\ IsZero(b)
         THEN (IF a = NZero /\ b = NZero THEN NZero ELSE Zero)
    ELSE IF IsZero(a) THEN b
    ELSE IF IsZero(b) THEN a
    ELSE LET n == a[1] * b[2] + b[1] * a[2]
         IN  IF n = 0 THEN Zero ELSE Norm(n, a[2] * b[2])

FSub(a, b) == FAdd(a, FNeg(b))

\* f64's == : NaN equals nothing, +0.0 equals -0.0
FEq(a, b) ==
    /\ ~IsNan(a)
    /\ ~IsNan(b)
    /\ (a = b \/ (IsZero(a) /\ IsZero(b)))

\* the same number, or both NaN (what a tolerance comparison can at best accept)
Same(a, b) == a = b \/ (IsZero(a) /\ IsZero(b))

\* ------------------------------------------------------------------ bounds
\* nodes on tape A when one tape is used through Var's operators
MaxNodes == 3
\* nodes on tape A when two tapes and the tape's public appends are used
MaxOpen == 2
\* nodes on tape A for a caller that keeps a Grad across appends
MaxKeep == 2
\* nodes on tape B, which only supplies Vars of another tape
MaxForeign == 2
\* shared borrows of Tape.nodes a caller may hold at once
MaxHeld == 1
\* inputs of the functions handed to gradient and jacobian
NIn == 2

Tapes == {"A", "B"}
\* values handed to Tape::var, and the f64 factors of f64 * Var
Vals == {F(0), F(2)}
ForeignVals == {F(1)}
Scalars == {F(-2)}
\* the demonstration program's inputs (bin.rs fixes them to 1.0, 1.0)
DemoVals == {F(-1), F(0), F(1), F(2)}

VARIABLES
    tape,      \* tape[t]: the RefCell<Vec<Node>> of Tape t: [nodes, flag]
    vars,      \* vars[t][k+1]: the Var returned for node k of t: [v, op, local]
    calls,     \* calls[t]: completed Tape::var calls and operator applications
    grad,      \* the Grad returned by the latest backprop call
    prev,      \* the Grad of the backprop call just before, same Var, no append since
    wrtRes,    \* the latest Grad::wrt call: its argument and outcome
    held,      \* the borrows of tape A's nodes the caller itself holds (-1: a RefMut)
    err,       \* the latest operation, its tape and whether it panicked
    pc,        \* "free", or the demonstration program's position
    fwd        \* the latest forward-mode call: function, point, result, evaluations

vars_all == <<tape, vars, calls, grad, prev, wrtRes, held, err, pc, fwd>>

\* ------------------------------------------------------------------ reverse.rs
\* RefCell<Vec<Node>>: flag > 0 counts shared borrows, flag = -1 is a mutable one
CanBorrow(flag) == flag >= 0
CanBorrowMut(flag) == flag = 0
borrow(flag) == flag + 1
\* a Ref whose drop does not release its borrow
drop_ref_leak(flag) == flag
drop_ref(flag) == flag - 1
borrow_mut(flag) == -1
drop_refmut(flag) == 0

Tape_new == [nodes |-> <<>>, flag |-> 0]

\* `let len = self.nodes.borrow().len();` : the Ref is a temporary of the statement
read_len(cell) ==
    IF ~CanBorrow(cell.flag)
    THEN [panic |-> TRUE, cell |-> cell, len |-> 0]
    ELSE [panic |-> FALSE,
          cell |-> [cell EXCEPT !.flag = drop_ref(borrow(cell.flag))],
          len |-> Len(cell.nodes)]

\* a push that also writes the new node over the tape's first entry
push_overwrite(cell, node) ==
    IF ~CanBorrowMut(cell.flag)
    THEN [panic |-> TRUE, cell |-> cell]
    ELSE [panic |-> FALSE,
          cell |-> [nodes |-> IF cell.nodes = <<>> THEN <<node>>
                              ELSE Append(<<node>> \o Tail(cell.nodes), node),
                    flag |-> drop_refmut(borrow_mut(cell.flag))]]

\* `self.nodes.borrow_mut().push(node);` : the RefMut is a temporary of the statement
push(cell, node) ==
    IF ~CanBorrowMut(cell.flag)
    THEN [panic |-> TRUE, cell |-> cell]
    ELSE [panic |-> FALSE,
          cell |-> [nodes |-> Append(cell.nodes, node),
                    flag |-> drop_refmut(borrow_mut(cell.flag))]]

\* the three appends return [panic, cell, index, v]: the tape's cell afterwards and
\* the fields of the Var returned (none when the call panicked)
var(cell, value) ==
    LET l == read_len(cell)
        p == push(l.cell, [partials |-> <<Zero, Zero>>, parents |-> <<l.len, l.len>>])
    IN  IF l.panic THEN [panic |-> TRUE, cell |-> cell, index |-> 0, v |-> value]
        ELSE [panic |-> p.panic, cell |-> p.cell, index |-> l.len, v |-> value]

\* a unary_op that records its two parents in the other order
unary_op_swapped(cell, partial, index, new_value) ==
    LET l == read_len(cell)
        p == push(l.cell, [partials |-> <<partial, Zero>>, parents |-> <<l.len, index>>])
    IN  IF l.panic THEN [panic |-> TRUE, cell |-> cell, index |-> 0, v |-> new_value]
        ELSE [panic |-> p.panic, cell |-> p.cell, index |-> l.len, v |-> new_value]

unary_op(cell, partial, index, new_value) ==
    LET l == read_len(cell)
        p == push(l.cell, [partials |-> <<partial, Zero>>, parents |-> <<index, l.len>>])
    IN  IF l.panic THEN [panic |-> TRUE, cell |-> cell, index |-> 0, v |-> new_value]
        ELSE [panic |-> p.panic, cell |-> p.cell, index |-> l.len, v |-> new_value]

binary_op(cell, lhs_partial, rhs_partial, lhs_index, rhs_index, new_value) ==
    LET l == read_len(cell)
        p == push(l.cell, [partials |-> <<lhs_partial, rhs_partial>>,
                           parents |-> <<lhs_index, rhs_index>>])
    IN  IF l.panic THEN [panic |-> TRUE, cell |-> cell, index |-> 0, v |-> new_value]
        ELSE [panic |-> p.panic, cell |-> p.cell, index |-> l.len, v |-> new_value]

\* the operators of Var; self and rhs are Vars [tape, index, v], tp the tapes' cells.
\* Each appends to the tape of the operand the code takes `.tape` from.
add(tp, self, rhs) ==
    binary_op(tp[self.tape], One, One, self.index, rhs.index, FAdd(self.v, rhs.v))

sub(tp, self, rhs) ==
    binary_op(tp[self.tape], One, MinusOne, self.index, rhs.index, FSub(self.v, rhs.v))

neg(tp, self) ==
    unary_op(tp[self.tape], MinusOne, self.index, FNeg(self.v))

mul(tp, self, rhs) ==
    binary_op(tp[self.tape], rhs.v, self.v, self.index, rhs.index, FMul(self.v, rhs.v))

scalar_mul(tp, c, rhs) ==
    unary_op(tp[rhs.tape], c, rhs.index, FMul(c, rhs.v))

div(tp, self, rhs) ==
    binary_op(tp[self.tape], FDiv(One, rhs.v),
              FDiv(FNeg(self.v), FMul(rhs.v, rhs.v)),
              self.index, rhs.index, FDiv(self.v, rhs.v))

\* a loop that assigns `partial * adjoint` to the left parent's slot where the
\* code's `+=` accumulates
RECURSIVE backprop_loop_assign(_, _, _)
backprop_loop_assign(nodes, g, i) ==
    IF i = 0 THEN [panic |-> FALSE, grad |-> g]
    ELSE LET node == nodes[i]
             lhs_dep == node.parents[1]
             rhs_dep == node.parents[2]
         IN  IF lhs_dep >= Len(g) THEN [panic |-> TRUE, grad |-> <<>>]
             ELSE LET g1 == [g EXCEPT ![lhs_dep + 1] = FMul(node.partials[1], g[i])]
                  IN  IF rhs_dep >= Len(g1) THEN [panic |-> TRUE, grad |-> <<>>]
                      ELSE backprop_loop_assign(nodes,
                               [g1 EXCEPT ![rhs_dep + 1] =
                                   FAdd(@, FMul(node.partials[2], g1[i]))],
                               i - 1)

\* Var::backprop's loop body for i, then the rest of (0..i).rev(); i is 1-based here.
\* An index past the end of grad panics (Vec's bounds check).
RECURSIVE backprop_loop(_, _, _)
backprop_loop(nodes, g, i) ==
    IF i = 0 THEN [panic |-> FALSE, grad |-> g]
    ELSE LET node == nodes[i]
             lhs_dep == node.parents[1]
             rhs_dep == node.parents[2]
         IN  IF lhs_dep >= Len(g) THEN [panic |-> TRUE, grad |-> <<>>]
             ELSE LET g1 == [g EXCEPT ![lhs_dep + 1] =
                                 FAdd(@, FMul(node.partials[1], g[i]))]
                  IN  IF rhs_dep >= Len(g1) THEN [panic |-> TRUE, grad |-> <<>>]
                      ELSE backprop_loop(nodes,
                               [g1 EXCEPT ![rhs_dep + 1] =
                                   FAdd(@, FMul(node.partials[2], g1[i]))],
                               i - 1)

\* Var::backprop on a Var of index `index` whose tape's cell is `cell`
backprop(cell, index) ==
    IF ~CanBorrow(cell.flag) THEN [panic |-> TRUE, grad |-> <<>>]
    ELSE LET tape_len == Len(cell.nodes)
             zeros == [k \in 1..tape_len |-> Zero]
         IN  IF index >= tape_len THEN [panic |-> TRUE, grad |-> <<>>]
             ELSE backprop_loop(cell.nodes, [zeros EXCEPT ![index + 1] = One], tape_len)

\* a backprop that consumes the tape's last node
cell_after_backprop_pop(cell) ==
    [cell EXCEPT !.nodes = SubSeq(@, 1, Len(@) - 1)]

\* what backprop leaves in the tape's cell: it takes shared borrows only, each a
\* temporary of its statement
cell_after_backprop(cell) ==
    IF ~CanBorrow(cell.flag) THEN cell
    ELSE [cell EXCEPT !.flag = drop_ref(borrow(cell.flag))]

\* a wrt that wraps an out-of-range index, and returns 0.0 from an empty Grad
wrt_wrapped(g, v) ==
    IF g = <<>> THEN [panic |-> FALSE, out |-> Zero]
    ELSE [panic |-> FALSE, out |-> g[(v.index % Len(g)) + 1]]

\* Grad::wrt: `self.grad[var.index]`, a bounds-checked Vec index
wrt(g, v) ==
    IF v.index < Len(g) THEN [panic |-> FALSE, out |-> g[v.index + 1]]
    ELSE [panic |-> TRUE, out |-> Nan]

\* ------------------------------------------------------------------ forward.rs
\* DualScalar { v, dv } and its operator impls
Dual(v, dv) == [v |-> v, dv |-> dv]

DualScalar_add(self, rhs) == Dual(FAdd(self.v, rhs.v), FAdd(self.dv, rhs.dv))

DualScalar_sub(self, rhs) == Dual(FSub(self.v, rhs.v), FSub(self.dv, rhs.dv))

DualScalar_mul(self, rhs) ==
    Dual(FMul(self.v, rhs.v),
         FAdd(FMul(self.dv, rhs.v), FMul(self.v, rhs.dv)))

DualScalar_div(self, rhs) ==
    Dual(FDiv(self.v, rhs.v),
         FDiv(FSub(FMul(self.dv, rhs.v), FMul(self.v, rhs.dv)),
              FMul(rhs.v, rhs.v)))

deriv(self) == self.dv

\* A closure over &[DualScalar] is an expression: X(i) is x[i], Bin(op, l, r) applies
\* one of DualScalar's operators.  Call(func, inputs) is func(&inputs).
X(i) == [op |-> "x", i |-> i]
Bin(op, l, r) == [op |-> op, l |-> l, r |-> r]

RECURSIVE Call(_, _)
Call(func, inputs) ==
    CASE func.op = "x" -> inputs[func.i + 1]
      [] func.op = "add" -> DualScalar_add(Call(func.l, inputs), Call(func.r, inputs))
      [] func.op = "sub" -> DualScalar_sub(Call(func.l, inputs), Call(func.r, inputs))
      [] func.op = "mul" -> DualScalar_mul(Call(func.l, inputs), Call(func.r, inputs))
      [] func.op = "div" -> DualScalar_div(Call(func.l, inputs), Call(func.r, inputs))

\* a closure returning Vec<DualScalar>: a sequence of expressions
CallVec(func, inputs) == [j \in 1..Len(func) |-> Call(func[j], inputs)]

\* `x0.iter().map(|&v| DualScalar { v: v, dv: 0. }).collect()`
RECURSIVE seed_inputs(_)
seed_inputs(x0) ==
    IF x0 = <<>> THEN <<>>
    ELSE <<Dual(Head(x0), Zero)>> \o seed_inputs(Tail(x0))

\* a reset that leaves the seed in place
unseed_forgot(inputs, i) == inputs

\* `inputs[i].dv = 1.;` and `inputs[i].dv = 0.;` (i is 1-based here)
seed(inputs, i) == [inputs EXCEPT ![i] = Dual(@.v, One)]
unseed(inputs, i) == [inputs EXCEPT ![i] = Dual(@.v, Zero)]

\* derivative(func, x0)
derivative(func, x0) == deriv(Call(func, <<Dual(x0, One)>>))

\* gradient's map over 0..x0.len(), from index i on; out collects the partials and
\* evals the argument of each call of func
RECURSIVE gradient_loop(_, _, _, _, _)
gradient_loop(func, inputs, i, out, evals) ==
    IF i > Len(inputs) THEN [out |-> out, evals |-> evals]
    ELSE LET seeded == seed(inputs, i)
             partial == deriv(Call(func, seeded))
         IN  gradient_loop(func, unseed(seeded, i), i + 1,
                           Append(out, partial), Append(evals, seeded))

\* gradient(func, x0); forward.rs and lib.rs hold the same text
gradient(func, x0) == gradient_loop(func, seed_inputs(x0), 1, <<>>, <<>>)

\* forward.rs jacobian<N, M>: the loop over the columns, from column i on.
\* The matrix is kept as its sequence of columns.
RECURSIVE jacobian_loop(_, _, _, _, _, _, _)
jacobian_loop(func, inputs, N, M, i, cols, evals) ==
    IF i > N THEN [cols |-> cols, evals |-> evals]
    ELSE LET seeded == seed(inputs, i)
             col_result == CallVec(func, seeded)
             col == [j \in 1..M |-> col_result[j].dv]
         IN  jacobian_loop(func, unseed(seeded, i), N, M, i + 1,
                           Append(cols, col), Append(evals, seeded))

\* entry (row j, column i) of a matrix kept as columns, and as rows
jacobian(func, x0, N, M) ==
    LET r == jacobian_loop(func, seed_inputs(x0), N, M, 1, <<>>, <<>>)
    IN  [out |-> [j \in 1..M |-> [i \in 1..N |-> r.cols[i][j]]], evals |-> r.evals]

\* ------------------------------------------------------------------ lib.rs
\* lib.rs jacobian<N, M>: row by row, each row the gradient of `|x| func(x)[i]`;
\* every call of row_func calls func, so evals collects the rows' evaluations
RECURSIVE lib_jacobian_loop(_, _, _, _, _, _)
lib_jacobian_loop(func, x0, M, i, rows, evals) ==
    IF i > M THEN [out |-> rows, evals |-> evals]
    ELSE LET row_gradient == gradient(func[i], x0)
         IN  lib_jacobian_loop(func, x0, M, i + 1,
                               Append(rows, row_gradient.out),
                               evals \o row_gradient.evals)

lib_jacobian(func, x0, N, M) == lib_jacobian_loop(func, x0, M, 1, <<>>, <<>>)

\* ------------------------------------------------------------------ state
NoGrad == [some |-> FALSE]
NoWrt == [some |-> FALSE]
NoFwd == [some |-> FALSE]

NodesOf(t) == tape[t].nodes

\* the Vars the caller holds: one per node, as returned when the node was appended
VarOf(t, k) == [tape |-> t, index |-> k, v |-> vars[t][k + 1].v]
VarsOn(t) == {VarOf(t, k - 1) : k \in 1..Len(vars[t])}
LiveVars == VarsOn("A") \cup VarsOn("B")

Init ==
    /\ tape = [t \in Tapes |-> Tape_new]
    /\ vars = [t \in Tapes |-> <<>>]
    /\ calls = [t \in Tapes |-> [var |-> 0, op |-> 0]]
    /\ grad = NoGrad
    /\ prev = NoGrad
    /\ wrtRes = NoWrt
    /\ held = 0
    /\ err = [op |-> "none", tape |-> "A", panic |-> FALSE]
    /\ pc \in {"free", "vars"}
    /\ fwd = NoFwd

\* the caller's side of an append on tape t that returned r: it keeps the Var, and
\* keeps the Grad it holds (keep) or has dropped it
Appended(t, r, kind, opname, local, keep) ==
    /\ tape' = [tape EXCEPT ![t] = r.cell]
    /\ err' = [op |-> "append", tape |-> t, panic |-> r.panic]
    /\ IF r.panic
       THEN UNCHANGED <<vars, calls>>
       ELSE /\ vars' = [vars EXCEPT ![t] =
                           Append(@, [v |-> r.v, op |-> opname, local |-> local,
                                      node |-> r.cell.nodes[r.index + 1]])]
            /\ calls' = [calls EXCEPT ![t][kind] = @ + 1]
    /\ grad' = IF keep THEN grad ELSE NoGrad
    /\ prev' = NoGrad
    /\ wrtRes' = NoWrt
    /\ UNCHANGED <<held, fwd>>

Room(bound) == pc = "free" /\ Len(NodesOf("A")) < bound

ApplyVar(bound, keep) ==
    /\ Room(bound)
    /\ \E value \in Vals :
           Appended("A", var(tape["A"], value), "var", "var", TRUE, keep)
    /\ UNCHANGED pc

ApplyAdd(bound, rhsVars, keep) ==
    /\ Room(bound)
    /\ \E a \in VarsOn("A"), b \in rhsVars :
           Appended(a.tape, add(tape, a, b), "op", "add", a.tape = b.tape, keep)
    /\ UNCHANGED pc

ApplySub(bound, rhsVars, keep) ==
    /\ Room(bound)
    /\ \E a \in VarsOn("A"), b \in rhsVars :
           Appended(a.tape, sub(tape, a, b), "op", "sub", a.tape = b.tape, keep)
    /\ UNCHANGED pc

ApplyMul(bound, rhsVars, keep) ==
    /\ Room(bound)
    /\ \E a \in VarsOn("A"), b \in rhsVars :
           Appended(a.tape, mul(tape, a, b), "op", "mul", a.tape = b.tape, keep)
    /\ UNCHANGED pc

ApplyDiv(bound, rhsVars, keep) ==
    /\ Room(bound)
    /\ \E a \in VarsOn("A"), b \in rhsVars :
           Appended(a.tape, div(tape, a, b), "op", "div", a.tape = b.tape, keep)
    /\ UNCHANGED pc

ApplyNeg(bound, keep) ==
    /\ Room(bound)
    /\ \E a \in VarsOn("A") :
           Appended(a.tape, neg(tape, a), "op", "neg", TRUE, keep)
    /\ UNCHANGED pc

ApplyScalarMul(bound, keep) ==
    /\ Room(bound)
    /\ \E c \in Scalars, a \in VarsOn("A") :
           Appended(a.tape, scalar_mul(tape, c, a), "op", "scalar_mul", TRUE, keep)
    /\ UNCHANGED pc

\* z.backprop() for a Var the caller holds
DoBackprop(z) ==
    LET r == backprop(tape[z.tape], z.index)
        g == [some |-> TRUE, tape |-> z.tape, index |-> z.index,
              len |-> Len(NodesOf(z.tape)), panic |-> r.panic, adj |-> r.grad]
    IN  /\ tape' = [tape EXCEPT ![z.tape] = cell_after_backprop(@)]
        /\ prev' = IF grad.some /\ grad.tape = z.tape /\ grad.index = z.index
                      /\ grad.len = g.len
                   THEN grad ELSE NoGrad
        /\ grad' = g
        /\ err' = [op |-> "backprop", tape |-> z.tape, panic |-> r.panic]
        /\ wrtRes' = NoWrt
        /\ UNCHANGED <<vars, calls, held, fwd>>

\* the caller takes the Grad of one Var per state of the tape, and may take it again
Backprop ==
    /\ pc = "free"
    /\ \E z \in VarsOn("A") :
           /\ grad.some => grad.index = z.index
           /\ DoBackprop(z)
    /\ UNCHANGED pc

\* grad.wrt(v) on the Grad the caller holds, for a Var it holds
DoWrt(v) ==
    LET r == wrt(grad.adj, v)
    IN  /\ wrtRes' = [some |-> TRUE, tape |-> v.tape, index |-> v.index,
                      panic |-> r.panic, out |-> r.out]
        /\ err' = [op |-> "wrt", tape |-> grad.tape, panic |-> r.panic]
        /\ UNCHANGED <<tape, vars, calls, grad, prev, held, fwd>>

\* ---- a caller that keeps the Grad it holds across appends, uses Vars of another
\* tape, and may itself borrow the pub field Tape.nodes of tape A
ApplyForeignVar(keep) ==
    /\ pc = "free"
    /\ Len(NodesOf("B")) < MaxForeign
    /\ \E value \in ForeignVals :
           Appended("B", var(tape["B"], value), "var", "var", TRUE, keep)
    /\ UNCHANGED pc

KeepVar == ApplyVar(MaxKeep, TRUE)
KeepForeignVar == ApplyForeignVar(TRUE)
KeepAdd == ApplyAdd(MaxKeep, VarsOn("A"), TRUE)

KeepBackprop ==
    /\ pc = "free"
    /\ \E z \in VarsOn("A") : DoBackprop(z)
    /\ UNCHANGED pc

Wrt ==
    /\ pc = "free"
    /\ grad.some /\ ~grad.panic
    /\ \E v \in LiveVars : DoWrt(v)
    /\ UNCHANGED pc

\* `let r = tape.nodes.borrow();`
CallerBorrow ==
    /\ pc = "free"
    /\ held < MaxHeld
    /\ IF CanBorrow(tape["A"].flag)
       THEN /\ tape' = [tape EXCEPT !["A"].flag = borrow(@)]
            /\ held' = held + 1
            /\ err' = [op |-> "borrow", tape |-> "A", panic |-> FALSE]
       ELSE /\ err' = [op |-> "borrow", tape |-> "A", panic |-> TRUE]
            /\ UNCHANGED <<tape, held>>
    /\ UNCHANGED <<vars, calls, grad, prev, wrtRes, pc, fwd>>

\* `let r = tape.nodes.borrow_mut();`
CallerBorrowMut ==
    /\ pc = "free"
    /\ IF CanBorrowMut(tape["A"].flag)
       THEN /\ tape' = [tape EXCEPT !["A"].flag = borrow_mut(@)]
            /\ held' = -1
            /\ err' = [op |-> "borrow", tape |-> "A", panic |-> FALSE]
       ELSE /\ err' = [op |-> "borrow", tape |-> "A", panic |-> TRUE]
            /\ UNCHANGED <<tape, held>>
    /\ UNCHANGED <<vars, calls, grad, prev, wrtRes, pc, fwd>>

\* `drop(r);`
CallerDrop ==
    /\ pc = "free"
    /\ held # 0
    /\ tape' = [tape EXCEPT !["A"].flag =
                   IF held > 0 THEN drop_ref(@) ELSE drop_refmut(@)]
    /\ held' = IF held > 0 THEN held - 1 ELSE 0
    /\ err' = [op |-> "drop", tape |-> "A", panic |-> FALSE]
    /\ UNCHANGED <<vars, calls, grad, prev, wrtRes, pc, fwd>>

NextCaller ==
    \/ KeepVar
    \/ KeepForeignVar
    \/ KeepAdd
    \/ KeepBackprop
    \/ Wrt
    \/ CallerBorrow
    \/ CallerBorrowMut
    \/ CallerDrop

SpecCaller == Init /\ [][NextCaller]_vars_all

\* ---- two tapes and the tape's public appends
\* Tape::unary_op and Tape::binary_op are public: a caller may pass any index.
\* The indices tried: the first node, the new node's own index, one past it.
RawIdx == {0, Len(NodesOf("A")), Len(NodesOf("A")) + 1}

CallUnaryOp ==
    /\ Room(MaxOpen)
    /\ \E index \in RawIdx :
           Appended("A", unary_op(tape["A"], One, index, One),
                    "op", "unary_op", FALSE, FALSE)
    /\ UNCHANGED pc

CallBinaryOp ==
    /\ Room(MaxOpen)
    /\ \E i \in RawIdx, j \in RawIdx :
           Appended("A", binary_op(tape["A"], One, One, i, j, One),
                    "op", "binary_op", FALSE, FALSE)
    /\ UNCHANGED pc

OpenVar == ApplyVar(MaxOpen, FALSE)
OpenForeignVar == ApplyForeignVar(FALSE)
OpenAdd == ApplyAdd(MaxOpen, LiveVars, FALSE)
OpenSub == ApplySub(MaxOpen, LiveVars, FALSE)
OpenMul == ApplyMul(MaxOpen, LiveVars, FALSE)
OpenDiv == ApplyDiv(MaxOpen, LiveVars, FALSE)
OpenNeg == ApplyNeg(MaxOpen, FALSE)
OpenScalarMul == ApplyScalarMul(MaxOpen, FALSE)

NextOpen ==
    \/ OpenVar
    \/ OpenForeignVar
    \/ OpenAdd
    \/ OpenSub
    \/ OpenMul
    \/ OpenDiv
    \/ OpenNeg
    \/ OpenScalarMul
    \/ CallUnaryOp
    \/ CallBinaryOp

SpecOpen == Init /\ [][NextOpen]_vars_all

\* ---- forward mode: gradient and the two jacobians, called on closures over NIn
\* inputs at points of PVals
PVals == {F(0), F(1), F(2)}
RECURSIVE PointsOfLen(_)
PointsOfLen(n) ==
    IF n = 0 THEN {<<>>}
    ELSE {Append(x0, v) : x0 \in PointsOfLen(n - 1), v \in PVals}
Points == PointsOfLen(NIn)
Leaves == {X(i) : i \in 0..(NIn - 1)}
BinOps == {"add", "sub", "mul", "div"}
\* the closures of the repository's tests and of bin.rs among them:
\* x[0] + x[1], x[0] * x[0] * x[1], x[0] * x[1] + x[1] * x[1]
ScalarFuncs ==
    Leaves \cup {Bin(op, l, r) : op \in BinOps, l \in Leaves, r \in Leaves}
           \cup {Bin("mul", Bin("mul", X(0), X(0)), X(1)),
                 Bin("add", Bin("mul", X(0), X(1)), Bin("mul", X(1), X(1)))}
VecFuncs ==
    {<<f>> : f \in ScalarFuncs}
        \cup {<<f, g>> : f \in ScalarFuncs, g \in Leaves \cup {Bin("add", X(0), X(1))}}

Called(name, func, x0, r) ==
    /\ ~fwd.some
    /\ fwd' = [some |-> TRUE, call |-> name, func |-> func, x0 |-> x0,
               out |-> r.out, evals |-> r.evals]
    /\ UNCHANGED <<tape, vars, calls, grad, prev, wrtRes, held, err, pc>>

CallGradient ==
    \E func \in ScalarFuncs, x0 \in Points :
        Called("gradient", func, x0, gradient(func, x0))

CallJacobian ==
    \E func \in VecFuncs, x0 \in Points :
        Called("jacobian", func, x0, jacobian(func, x0, Len(x0), Len(func)))

CallLibJacobian ==
    \E func \in VecFuncs, x0 \in Points :
        Called("lib_jacobian", func, x0, lib_jacobian(func, x0, Len(x0), Len(func)))

\* the caller is done with the returned Vec and makes its next call
Returned ==
    /\ fwd.some
    /\ fwd' = NoFwd
    /\ UNCHANGED <<tape, vars, calls, grad, prev, wrtRes, held, err, pc>>

NextFwd ==
    \/ CallGradient
    \/ CallJacobian
    \/ CallLibJacobian
    \/ Returned

SpecFwd == Init /\ [][NextFwd]_vars_all

\* ---- bin.rs, main, lines 33-39, at any inputs of DemoVals:
\*   let x = tape.var(_); let y = tape.var(_);
\*   let z = -2.0 * x + x * x * x * y + 2.0 * y;
\*   let grad = z.backprop(); grad.wrt(x); grad.wrt(y);
\* The operators of line 36 in evaluation order, operands by node index.
DemoProg ==
    << [op |-> "scalar_mul", c |-> F(-2), a |-> 0],
       [op |-> "mul", a |-> 0, b |-> 0],
       [op |-> "mul", a |-> 3, b |-> 0],
       [op |-> "mul", a |-> 4, b |-> 1],
       [op |-> "add", a |-> 2, b |-> 5],
       [op |-> "scalar_mul", c |-> F(2), a |-> 1],
       [op |-> "add", a |-> 6, b |-> 7] >>

DemoApply(ins) ==
    CASE ins.op = "scalar_mul" -> scalar_mul(tape, ins.c, VarOf("A", ins.a))
      [] ins.op = "mul" -> mul(tape, VarOf("A", ins.a), VarOf("A", ins.b))
      [] ins.op = "add" -> add(tape, VarOf("A", ins.a), VarOf("A", ins.b))

Main ==
    \/ /\ pc = "vars"
       /\ \E value \in DemoVals :
              Appended("A", var(tape["A"], value), "var", "var", TRUE, TRUE)
       /\ pc' = IF Len(NodesOf("A")) = 1 THEN "ops" ELSE "vars"
    \/ /\ pc = "ops"
       /\ LET ins == DemoProg[Len(NodesOf("A")) - 1]
          IN  Appended("A", DemoApply(ins), "op", ins.op, TRUE, TRUE)
       /\ pc' = IF Len(NodesOf("A")) - 1 = Len(DemoProg) THEN "backprop" ELSE "ops"
    \/ /\ pc = "backprop"
       /\ DoBackprop(VarOf("A", Len(NodesOf("A")) - 1))
       /\ pc' = "wrt_x"
    \/ /\ pc = "wrt_x"
       /\ DoWrt(VarOf("A", 0))
       /\ pc' = "wrt_y"
    \/ /\ pc = "wrt_y"
       /\ DoWrt(VarOf("A", 1))
       /\ pc' = "end"

\* ---- one tape, used through Tape::var and Var's operators
NewVar == ApplyVar(MaxNodes, FALSE)
OpAdd == ApplyAdd(MaxNodes, VarsOn("A"), FALSE)
OpSub == ApplySub(MaxNodes, VarsOn("A"), FALSE)
OpMul == ApplyMul(MaxNodes, VarsOn("A"), FALSE)
OpDiv == ApplyDiv(MaxNodes, VarsOn("A"), FALSE)
OpNeg == ApplyNeg(MaxNodes, FALSE)
OpScalarMul == ApplyScalarMul(MaxNodes, FALSE)

Next ==
    \/ NewVar
    \/ OpAdd
    \/ OpSub
    \/ OpMul
    \/ OpDiv
    \/ OpNeg
    \/ OpScalarMul
    \/ Backprop
    \/ Main

Spec == Init /\ [][Next]_vars_all

\* ================================================================== properties
\* ---- helpers
\* the sum, over the dependency paths from node z down to node v, of the product of
\* the partials recorded along the path; a node's entry that points at the node
\* itself (a leaf's, a unary node's second) is no dependency
RECURSIVE PathSum(_, _, _)
PathSum(nodes, z, v) ==
    IF z = v THEN One
    ELSE LET node == nodes[z + 1]
             via(j) == IF node.parents[j] < z
                       THEN FMul(node.partials[j], PathSum(nodes, node.parents[j], v))
                       ELSE Zero
         IN  FAdd(via(1), via(2))

OpsOn(t) == {vars[t][k].op : k \in 1..Len(vars[t])}
LeavesOn(t) == {k \in 0..(Len(vars[t]) - 1) : vars[t][k + 1].op = "var"}
RankOf(t, k) == Cardinality({j \in LeavesOn(t) : j < k})

\* the inputs of tape t in creation order, and the closure over DualScalars that
\* repeats the operators recorded for node z
PointOf(t) ==
    [i \in 1..Cardinality(LeavesOn(t)) |->
        vars[t][(CHOOSE k \in LeavesOn(t) : RankOf(t, k) = i - 1) + 1].v]

RECURSIVE FuncOf(_, _)
FuncOf(t, z) ==
    IF vars[t][z + 1].op = "var" THEN X(RankOf(t, z))
    ELSE Bin(vars[t][z + 1].op,
             FuncOf(t, NodesOf(t)[z + 1].parents[1]),
             FuncOf(t, NodesOf(t)[z + 1].parents[2]))

\* the nodes the value of node z depends on, z among them
RECURSIVE ConeOf(_, _)
ConeOf(nodes, z) ==
    {z} \cup UNION {ConeOf(nodes, nodes[z + 1].parents[j]) :
                       j \in {j \in 1..2 : nodes[z + 1].parents[j] < z}}

GradHeld == grad.some /\ ~grad.panic

\* the Grad held is that of an expression over add, sub, mul, div which uses every
\* node of its tape
ExprGradHeld ==
    /\ GradHeld
    /\ OpsOn(grad.tape) \subseteq {"var", "add", "sub", "mul", "div"}
    /\ ConeOf(NodesOf(grad.tape), grad.index) = 0..(grad.len - 1)

\* ---- C1
\* C1: on one tape, after n Tape::var calls and m operator applications the node
\* sequence has exactly n+m entries, and every entry still has the partials and
\* parents it was appended with (backprop and wrt included among the operations).
C1_AppendOnly ==
    \A t \in Tapes :
        /\ Len(NodesOf(t)) = calls[t].var + calls[t].op
        /\ Len(NodesOf(t)) = Len(vars[t])
        /\ \A k \in 1..Len(vars[t]) : NodesOf(t)[k] = vars[t][k].node

\* a tape of two inputs and an operator node on which backprop has run
C1_Witness ==
    /\ calls["A"].var >= 2
    /\ calls["A"].op >= 1
    /\ GradHeld

\* ---- C2
\* the demonstration program's derivatives in closed form: dz/dx = -2 + 3x^2y,
\* dz/dy = x^3 + 2
DemoDx(x, y) == FAdd(F(-2), FMul(F(3), FMul(FMul(x, x), y)))
DemoDy(x, y) == FAdd(FMul(FMul(x, x), x), F(2))

\* C2: for z built on one tape by add, sub, mul, neg and f64*Var, z.backprop().wrt(v)
\* is the sum over the dependency paths from z to v of the products of the recorded
\* partials; z = -2.0*x + x*x*x*y + 2.0*y gives wrt(x) = -2+3x^2y and wrt(y) = x^3+2
\* (1.0 and 3.0 at x = y = 1.0); a leaf alone gives wrt(x) = 1.0.
C2_BackpropExact ==
    /\ (GradHeld /\ OpsOn(grad.tape) \subseteq {"var", "add", "sub", "mul", "neg", "scalar_mul"})
          => \A k \in 0..(grad.len - 1) :
                 LET r == wrt(grad.adj, [index |-> k])
                 IN  /\ ~r.panic
                     /\ Same(r.out, PathSum(NodesOf(grad.tape), grad.index, k))
    /\ (GradHeld /\ grad.len = 1) => wrt(grad.adj, [index |-> 0]).out = One
    /\ (pc = "wrt_y" /\ wrtRes.some)
          => /\ ~wrtRes.panic
             /\ Same(wrtRes.out, DemoDx(vars["A"][1].v, vars["A"][2].v))
             /\ (vars["A"][1].v = One /\ vars["A"][2].v = One) => wrtRes.out = F(1)
    /\ (pc = "end" /\ wrtRes.some)
          => /\ ~wrtRes.panic
             /\ Same(wrtRes.out, DemoDy(vars["A"][1].v, vars["A"][2].v))
             /\ (vars["A"][1].v = One /\ vars["A"][2].v = One) => wrtRes.out = F(3)

\* the demonstration program has ended at x = y = 1.0 with wrt(y) = 3.0
C2_Witness ==
    /\ pc = "end"
    /\ vars["A"][1].v = One
    /\ vars["A"][2].v = One
    /\ wrtRes.some
    /\ wrtRes.out = F(3)

\* ---- C3
\* C3: for an expression built from add, sub, mul, div both over DualScalars and over
\* Vars, component i of forward::gradient(f, x0) is z.backprop().wrt(x_i), at any
\* input point x0.
C3_CrossMode ==
    ExprGradHeld
       => LET fw == gradient(FuncOf(grad.tape, grad.index), PointOf(grad.tape)).out
          IN  \A k \in LeavesOn(grad.tape) :
                  Same(fw[RankOf(grad.tape, k) + 1], wrt(grad.adj, [index |-> k]).out)

\* the same over the points at which every recorded value and partial is finite
AllFinite(t) ==
    \A k \in 1..Len(vars[t]) :
        /\ IsFinite(vars[t][k].v)
        /\ IsFinite(NodesOf(t)[k].partials[1])
        /\ IsFinite(NodesOf(t)[k].partials[2])

CrossModeFinite ==
    (ExprGradHeld /\ AllFinite(grad.tape))
       => LET fw == gradient(FuncOf(grad.tape, grad.index), PointOf(grad.tape)).out
          IN  \A k \in LeavesOn(grad.tape) :
                  Same(fw[RankOf(grad.tape, k) + 1], wrt(grad.adj, [index |-> k]).out)

\* ---- C4
\* C4: Grad::wrt(var) returns adjoints[var.index] when var.index is smaller than the
\* number of adjoints and aborts otherwise: for a Var created on the Grad's tape after
\* the backprop call, and for a Var of another tape whose index is past the end; it
\* never returns a value for an out-of-range Var.
C4_WrtBounds ==
    wrtRes.some =>
        /\ wrtRes.index < Len(grad.adj)
              => (~wrtRes.panic /\ wrtRes.out = grad.adj[wrtRes.index + 1])
        /\ wrtRes.index >= Len(grad.adj) => wrtRes.panic
        /\ (wrtRes.tape = grad.tape /\ wrtRes.index >= grad.len) => wrtRes.panic

\* wrt was called with a Var appended to the Grad's tape after the backprop call,
\* and aborted
C4_Witness ==
    /\ wrtRes.some
    /\ wrtRes.tape = grad.tape
    /\ wrtRes.index >= grad.len
    /\ wrtRes.index < Len(NodesOf(grad.tape))
    /\ wrtRes.panic

\* ---- C5
\* C5: backprop called twice on one Var with no append in between returns the same
\* adjoints slot for slot, and the tape is as it was before the two calls.
C5_Idempotent ==
    /\ prev.some => (prev.panic = grad.panic /\ prev.adj = grad.adj)
    /\ grad.some => (\A k \in 1..Len(vars[grad.tape]) :
                        /\ Len(NodesOf(grad.tape)) = grad.len
                        /\ NodesOf(grad.tape)[k] = vars[grad.tape][k].node)

\* backprop has run twice on an operator node of a tape of three nodes
C5_Witness ==
    /\ prev.some
    /\ ~prev.panic
    /\ grad.len = 3
    /\ vars["A"][grad.index + 1].op = "mul"

\* ---- C6
\* the seeds of evaluation i over N inputs at x0: dv is 1.0 at input i, 0.0 elsewhere,
\* and every v is x0's
OneHot(inputs, x0, i) ==
    /\ Len(inputs) = Len(x0)
    /\ \A k \in 1..Len(x0) :
           /\ inputs[k].v = x0[k]
           /\ inputs[k].dv = IF k = i THEN One ELSE Zero

ColumnWise ==
    LET N == Len(fwd.x0)
        M == Len(fwd.func)
    IN  /\ Len(fwd.evals) = N
        /\ \A i \in 1..N : OneHot(fwd.evals[i], fwd.x0, i)
        /\ Len(fwd.out) = M
        /\ \A j \in 1..M :
               /\ Len(fwd.out[j]) = N
               /\ \A i \in 1..N :
                      fwd.out[j][i] = Call(fwd.func[j], fwd.evals[i]).dv

\* C6: each jacobian of the repository (forward.rs, lib.rs) evaluates f exactly N
\* times, the i-th time with dv = 1.0 at input i and 0.0 elsewhere, and entry
\* (row j, column i) of the result is the dv of output j of the i-th evaluation.
C6_ColumnWise ==
    (fwd.some /\ fwd.call \in {"jacobian", "lib_jacobian"}) => ColumnWise

\* the same for the jacobian of forward.rs alone
ForwardJacobianColumnWise ==
    (fwd.some /\ fwd.call = "jacobian") => ColumnWise

\* the entries of the jacobian of lib.rs are those of forward.rs
LibJacobianEntries ==
    (fwd.some /\ fwd.call = "lib_jacobian")
       => fwd.out = jacobian(fwd.func, fwd.x0, Len(fwd.x0), Len(fwd.func)).out

\* ---- C7
\* C7: gradient(f, x0) evaluates f exactly N = x0.len() times in index order; at
\* evaluation i input i alone has dv = 1.0, every v is x0's, component i of the
\* result is the dv that evaluation returned, and no earlier seed is left set.
C7_GradientSeeds ==
    (fwd.some /\ fwd.call = "gradient") =>
        LET N == Len(fwd.x0)
        IN  /\ Len(fwd.evals) = N
            /\ Len(fwd.out) = N
            /\ \A i \in 1..N :
                   /\ OneHot(fwd.evals[i], fwd.x0, i)
                   /\ fwd.out[i] = deriv(Call(fwd.func, fwd.evals[i]))

\* gradient of |x| x[0] * x[0] * x[1] at (1.0, 2.0) has returned (4.0, 1.0)
C7_Witness ==
    /\ fwd.some
    /\ fwd.call = "gradient"
    /\ fwd.func = Bin("mul", Bin("mul", X(0), X(0)), X(1))
    /\ fwd.x0 = <<F(1), F(2)>>
    /\ fwd.out = <<F(4), F(1)>>

\* ---- C8
BinaryOps == {"add", "sub", "mul", "div"}
UnaryOps == {"neg", "scalar_mul"}

\* C8 as stated: every node at index k not created by Tape::var has both parents
\* below k, whichever operator or public append recorded it and whichever tapes its
\* operands are on; a leaf has parents [k, k] and partials [0.0, 0.0].
C8_ParentOrdering ==
    \A t \in Tapes : \A k \in 0..(Len(vars[t]) - 1) :
        LET node == NodesOf(t)[k + 1]
        IN  IF vars[t][k + 1].op = "var"
            THEN node.parents = <<k, k>> /\ node.partials = <<Zero, Zero>>
            ELSE node.parents[1] < k /\ node.parents[2] < k

\* C8 amended: a leaf has parents [k, k] and partials [0.0, 0.0]; a node recorded by
\* add, sub, mul or div has parents[0] < k, and parents[1] < k when both operands
\* are Vars of the tape it is appended to; a node recorded by neg or f64*Var has
\* parents[0] < k, parents[1] = k and partials[1] = 0.0.
C8_ParentOrderingAmended ==
    \A t \in Tapes : \A k \in 0..(Len(vars[t]) - 1) :
        LET node == NodesOf(t)[k + 1]
            op == vars[t][k + 1].op
        IN  /\ op = "var" => (node.parents = <<k, k>> /\ node.partials = <<Zero, Zero>>)
            /\ op \in BinaryOps => node.parents[1] < k
            /\ (op \in BinaryOps /\ vars[t][k + 1].local) => node.parents[2] < k
            /\ op \in UnaryOps
                  => /\ node.parents[1] < k
                     /\ node.parents[2] = k
                     /\ node.partials[2] = Zero

\* tape A holds a leaf and a node recorded by neg or f64*Var
C8_Witness ==
    \E k \in 1..Len(vars["A"]) :
        /\ vars["A"][k].op \in UnaryOps
        /\ NodesOf("A")[k].parents = <<0, k - 1>>

\* ---- C9
\* C9: backprop on v, called when nodes were appended after v, returns one slot per
\* node on the tape, 0.0 in every slot after v's, and in the slots up to v's the
\* values v.backprop() had right after v was created.
C9_PrefixOnly ==
    grad.some =>
        LET nodes == NodesOf(grad.tape)
            early == backprop([nodes |-> SubSeq(nodes, 1, grad.index + 1), flag |-> 0],
                              grad.index)
        IN  /\ ~grad.panic
            /\ ~early.panic
            /\ Len(grad.adj) = Len(nodes)
            /\ \A k \in 1..Len(nodes) :
                   IF k > grad.index + 1
                   THEN Same(grad.adj[k], Zero)
                   ELSE Same(grad.adj[k], early.grad[k])

\* ---- C10
\* C10: an append attempted while a borrow of the tape's nodes is outstanding aborts
\* and leaves the node sequence as it was; the public operations release every
\* borrow they take, so with no borrow held by the caller no append and no backprop
\* aborts on the RefCell.
C10_Exclusive ==
    /\ (err.op = "append" /\ err.tape = "A" /\ held # 0) => err.panic
    /\ (err.op \in {"append", "backprop"} /\ err.panic) => (err.tape = "A" /\ held # 0)
    /\ tape["A"].flag = held
    /\ tape["B"].flag = 0
    /\ \A t \in Tapes :
           /\ Len(NodesOf(t)) = Len(vars[t])
           /\ \A k \in 1..Len(vars[t]) : NodesOf(t)[k] = vars[t][k].node

\* an append on tape A has aborted under a shared borrow the caller holds, and the
\* node appended before is still there
C10_Witness ==
    /\ err.op = "append"
    /\ err.tape = "A"
    /\ err.panic
    /\ held = 1
    /\ Len(NodesOf("A")) >= 1

====
